---- MODULE Spec2Model ----
(***************************************************************************)
(* Model of the network attacker (src/attacker.py) and of the simulation   *)
(* loop (src/simulator.py).                                                *)
(*                                                                         *)
(* A network is a record [nodes, edges]; an edge is the set of its one or  *)
(* two end points.  Networks live in a heap of objects (graphs) and an     *)
(* attacker holds a reference (netref) to its working network, so that     *)
(* copying and aliasing are distinguishable.  Iteration order of nodes()   *)
(* and neighbors() is ascending node id: the source network is taken to be *)
(* built by adding nodes in ascending order and edges in lexicographic     *)
(* order, and removing a node keeps the relative order of the others.      *)
(* Fractions are counted in thousandths (step = 0.001 is 1).               *)
(*                                                                         *)
(* The driver (__main__ of src/simulator.py) and its four processes are    *)
(* modelled on snapshots kept as node counts: DriverSpec for the order of  *)
(* allocation, start, join and output, SizeSpec for the derivation of n.   *)
(***************************************************************************)
EXTENDS Integers, Sequences, FiniteSets, TLC

\* ---------------------------------------------------------------- bounds
MaxNodes == 3        \* source networks have the nodes 1..k, k <= MaxNodes
MaxN     == 2        \* nodes removed per step, 0..MaxN
end      == 2        \* end fraction in thousandths (0.1 in the source)
MaxCalls == 2        \* direct policy calls per attacker (ApiSpec)
MaxCount == 1501     \* nodes of a snapshot, counted (SizeSpec, DriverSpec)
MaxSnaps == 2        \* snapshots the driver reads (DriverSpec)

\* ------------------------------------------------------ program constants
start == 0           \* simulator.py:7
step  == 1           \* simulator.py:9, 0.001 in thousandths
end_full == 100      \* simulator.py:8, 0.1 in thousandths

attack_types == {"random", "targeted", "random_path", "targeted_path"}
PathTypes    == {"random_path", "targeted_path"}

Runs   == {1, 2}     \* two attackers built from the same source network
Source == 0          \* heap id of the externally supplied network
Node   == 1..MaxNodes

\* -------------------------------------------------------------- networks
\* edges between distinct nodes of V, and self-loops when loops is TRUE
AllEdges(V, loops) ==
  {e \in {{u, v} : u \in V, v \in V} : loops \/ Cardinality(e) = 2}

\* the networks with nodes 1..k, k <= maxk, and any edges
Networks(maxk, loops) ==
  UNION {[nodes : {1..k}, edges : SUBSET AllEdges(1..k, loops)] : k \in 0..maxk}

Min(S) == CHOOSE x \in S : \A y \in S : x <= y

RECURSIVE SortedSeq(_)
SortedSeq(S) == IF S = {} THEN <<>>
                ELSE <<Min(S)>> \o SortedSeq(S \ {Min(S)})

SeqToSet(s) == {s[k] : k \in 1..Len(s)}

\* network.nodes()
nodes(G) == SortedSeq(G.nodes)

\* list(network.neighbors(t)), t present
neighbors_of(G, t) == SortedSeq({v \in G.nodes : {t, v} \in G.edges})

\* network.remove_node(t), t present: the node and its incident edges go
remove_node(G, t) ==
  [nodes |-> G.nodes \ {t}, edges |-> {e \in G.edges : t \notin e}]

\* degree of one node; a self-loop counts twice
deg(G, v) ==
  Cardinality({e \in G.edges : v \in e}) + (IF {v} \in G.edges THEN 1 ELSE 0)

None == [some |-> FALSE, val |-> <<>>]
Some(s) == [some |-> TRUE, val |-> s]

\* nbunch_iter: the nodes of nbunch that are in the network, in nbunch's
\* order; all nodes when nbunch is None
nbunch_iter(G, nbunch) ==
  IF nbunch.some
    THEN SelectSeq(nbunch.val, LAMBDA v : v \in G.nodes)
    ELSE nodes(G)

\* Graph.degree(network, nbunch): pairs (node, degree)
degree(G, nbunch) ==
  LET it == nbunch_iter(G, nbunch)
  IN  [k \in 1..Len(it) |-> <<it[k], deg(G, it[k])>>]

\* max(ranks, key=item[1]): the first item with the greatest key
MaxFirst(ranks) ==
  LET best == CHOOSE k \in 1..Len(ranks) :
                /\ \A j \in 1..Len(ranks) : ranks[j][2] <= ranks[k][2]
                /\ \A j \in 1..(k - 1) : ranks[j][2] < ranks[k][2]
  IN  ranks[best]

\* ------------------------------------------------------------ measurement
\* bfs that stops at the direct neighbours of the frontier
bfs_onehop(G, seen, frontier) ==
  seen \cup frontier \cup
    {v \in G.nodes : \E u \in frontier : {u, v} \in G.edges}

\* nodes reachable from the frontier (breadth-first search)
RECURSIVE bfs(_, _, _)
bfs(G, seen, frontier) ==
  IF frontier = {} THEN seen
  ELSE LET nxt == {v \in G.nodes : \E u \in frontier : {u, v} \in G.edges}
       IN  bfs(G, seen \cup frontier, nxt \ (seen \cup frontier))

\* nx.connected_component_subgraphs: one component per unseen node, in
\* node order
RECURSIVE connected_components(_, _)
connected_components(G, todo) ==
  IF todo = {} THEN <<>>
  ELSE LET c == bfs(G, {}, {Min(todo)})
       IN  <<c>> \o connected_components(G, todo \ c)

MeasureFails(G) == connected_components(G, G.nodes) = <<>>

\* measure(network) when max() has something to choose from
measure(G) ==
  LET components == connected_components(G, G.nodes)
      sizes == [k \in 1..Len(components) |-> <<k, Cardinality(components[k])>>]
      gigantic_component == components[MaxFirst(sizes)[1]]
  IN  <<Len(components), Cardinality(gigantic_component)>>

\* ----------------------------------------------------------- result keys
\* fmt with two fractional digits, "{:.2f}"
fmt_2f(num) ==
  LET h == (num + 5) \div 10 IN <<h \div 100, (h \div 10) % 10, h % 10>>

\* "{:.3f}".format(num) for num in thousandths: integer part and three
\* fractional digits
fmt(num) == <<num \div 1000, (num \div 100) % 10, (num \div 10) % 10, num % 10>>

iters == (end - start) \div step

\* ------------------------------------------------------------------ state
VARIABLES
  graphs,     \* heap: object id -> network (Source and one per attacker)
  netref,     \* attacker._network: the object the attacker works on
  n,          \* attacker._n
  atype,      \* attack_type of the run / of the current policy call
  pc,         \* position of the run
  i,          \* loop index of simulate
  left,       \* iterations of _attack's loop still to run
  target,     \* closure variable target of _path_chooser; the node chosen
              \* by the current iteration for the other policies
  neighbors,  \* closure variable neighbors of _path_chooser (None or a list)
  store,      \* result_store of the run: key -> measurement
  err,        \* exception that ended the run, "none" otherwise
  \* history
  calls,      \* policy calls that returned
  startNet,   \* working network when the current policy call began
  requested,  \* number of removals the current policy call asked for
  defaults,   \* TRUE while every policy call used the default count
  prevCache,  \* neighbors as the previous policy call left it
  last,       \* the last removal: node, network before it, cache consulted
  meas,       \* the last call of measure: network and outcome
  log,        \* writes to the result store, in order
  \* the driver (simulator.py, __main__) and its processes
  dpc,        \* position of the driver
  snap,       \* snapshots read so far; the current one has this timestamp
  dk,         \* index into ps of the start loop and of the join loop
  nodecount,  \* len(network) of the current snapshot
  n_drv,      \* the driver's n
  robustness, \* (attack_type, timestamp) -> id of the managed dict
  dicts,      \* the manager's dicts of results: id -> (key -> value)
  ps,         \* the processes of the current snapshot
  failedSnaps,\* history: timestamps of the snapshots a run of which failed
  output      \* the local dict that is pickled, <<>> before

sim_vars == <<graphs, netref, n, atype, pc, i, left, target, neighbors, store,
              err, calls, startNet, requested, defaults, prevCache, last, meas,
              log>>

drv_vars == <<dpc, snap, dk, nodecount, n_drv, robustness, dicts, ps,
              failedSnaps, output>>

vars == <<sim_vars, drv_vars>>

net(r) == graphs[netref[r]]

EmptyNet == [nodes |-> {}, edges |-> {}]
NoRemoval == [valid |-> FALSE, node |-> 0, before |-> EmptyNet,
              cache |-> None, first |-> FALSE]
NoMeas == [valid |-> FALSE, net |-> EmptyNet, ok |-> FALSE, result |-> <<0, 0>>]

\* __init__ without the copy: self._network = network
CopyRef_alias(srcRef, fresh) == srcRef

\* NetworkAttacker.__init__: self._network = network.copy() is a new object
CopyRef(srcRef, fresh) == fresh

InitWith(Gs, p) ==
  /\ \E G \in Gs : graphs = [o \in {Source} \cup Runs |-> G]
  /\ netref = [r \in Runs |-> CopyRef(Source, r)]
  /\ \E k \in 0..MaxN : n = [r \in Runs |-> k]
  /\ atype \in [Runs -> attack_types]
  /\ pc = p
  /\ i = [r \in Runs |-> 0]
  /\ left = [r \in Runs |-> 0]
  /\ target = [r \in Runs |-> 0]
  /\ neighbors = [r \in Runs |-> None]
  /\ store = [r \in Runs |-> <<>>]
  /\ err = [r \in Runs |-> "none"]
  /\ calls = [r \in Runs |-> 0]
  /\ startNet = [r \in Runs |-> EmptyNet]
  /\ requested = [r \in Runs |-> 0]
  /\ defaults = [r \in Runs |-> TRUE]
  /\ prevCache = [r \in Runs |-> None]
  /\ last = [r \in Runs |-> NoRemoval]
  /\ meas = [r \in Runs |-> NoMeas]
  /\ log = [r \in Runs |-> <<>>]

\* no driver: the attackers are built and run by a client of their own
NoDriver ==
  /\ dpc = "none"
  /\ snap = 0
  /\ dk = 0
  /\ nodecount = 0
  /\ n_drv = 0
  /\ robustness = <<>>
  /\ dicts = <<>>
  /\ ps = <<>>
  /\ failedSnaps = {}
  /\ output = <<>>

\* the networks of up to maxk nodes with at most one self-loop
OneLoopNetworks(maxk) ==
  {G \in Networks(maxk, TRUE) :
     Cardinality({e \in G.edges : Cardinality(e) = 1}) <= 1}

\* One simulate run, on attacker 1; attacker 2 is built and left alone.  The
\* network is any network of up to MaxNodes nodes, one self-loop included
\* (read_edgelist keeps them).
Init ==
  /\ InitWith(OneLoopNetworks(MaxNodes),
              [r \in Runs |-> IF r = 1 THEN "start" ELSE "unused"])
  /\ atype[2] = "random"
  /\ NoDriver

\* the run ends with an exception
Fail(r, e) ==
  /\ pc' = [pc EXCEPT ![r] = "failed"]
  /\ err' = [err EXCEPT ![r] = e]

\* a failed measurement leaving a placeholder entry behind
MeasureAndStore_placeholder(r, key, nextpc) ==
  LET G == net(r)
      val == IF MeasureFails(G) THEN <<0, 0>> ELSE measure(G)
  IN  /\ meas' = [meas EXCEPT ![r] =
                    [valid |-> TRUE, net |-> G, ok |-> ~MeasureFails(G),
                     result |-> val]]
      /\ store' = [store EXCEPT ![r] =
                     [k \in DOMAIN @ \cup {key} |->
                        IF k = key THEN val ELSE @[k]]]
      /\ IF MeasureFails(G)
           THEN Fail(r, "ValueError") /\ UNCHANGED log
           ELSE /\ log' = [log EXCEPT ![r] =
                             Append(@, [key |-> key, val |-> val,
                                        calls |-> calls[r], net |-> G])]
                /\ pc' = [pc EXCEPT ![r] = nextpc]
                /\ UNCHANGED err

\* result_store[key] = measure(attacker.network), then go to nextpc
MeasureAndStore(r, key, nextpc) ==
  LET G == net(r) IN
  IF MeasureFails(G)
    THEN /\ Fail(r, "ValueError")
         /\ meas' = [meas EXCEPT ![r] =
                       [valid |-> TRUE, net |-> G, ok |-> FALSE,
                        result |-> <<0, 0>>]]
         /\ UNCHANGED <<store, log>>
    ELSE /\ meas' = [meas EXCEPT ![r] =
                       [valid |-> TRUE, net |-> G, ok |-> TRUE,
                        result |-> measure(G)]]
         /\ store' = [store EXCEPT ![r] =
                        [k \in DOMAIN @ \cup {key} |->
                           IF k = key THEN measure(G) ELSE @[k]]]
         /\ log' = [log EXCEPT ![r] =
                      Append(@, [key |-> key, val |-> measure(G),
                                 calls |-> calls[r], net |-> G])]
         /\ pc' = [pc EXCEPT ![r] = nextpc]
         /\ UNCHANGED err

\* simulate, lines 60-61: the measurement of the untouched network
SimStart(r) ==
  /\ pc[r] = "start"
  /\ MeasureAndStore(r, fmt(0), IF iters > 0 THEN "call" ELSE "done")
  /\ UNCHANGED <<graphs, netref, n, atype, i, left, target, neighbors, calls,
                 startNet, requested, defaults, prevCache, last>>
  /\ UNCHANGED drv_vars

\* --------------------------------------------------------------- attacker
\* Outcome of choosing a node: an exception, or a node
Raise(e) == [err |-> e, node |-> 0]
Pick(v)  == [err |-> "none", node |-> v]

\* a draw that already gives up on a list of one element
_random_node_short(G, nodesArg) ==
  LET lst == IF nodesArg.some THEN nodesArg.val ELSE nodes(G)
  IN  IF Len(lst) <= 1 THEN {Raise("IndexError")}
      ELSE {Pick(lst[k]) : k \in 1..Len(lst)}

\* _random_node(nodes): random.choice(list(...)), any element of the list
_random_node(G, nodesArg) ==
  LET lst == IF nodesArg.some THEN nodesArg.val ELSE nodes(G)
  IN  IF lst = <<>> THEN {Raise("IndexError")}
      ELSE {Pick(lst[k]) : k \in 1..Len(lst)}

\* the first node with the least metric value
_best_node_least(G, nodesArg) ==
  LET ranks == degree(G, nodesArg)
      neg == [k \in 1..Len(ranks) |-> <<ranks[k][1], 0 - ranks[k][2]>>]
  IN  IF ranks = <<>> THEN {Raise("ValueError")}
      ELSE {Pick(MaxFirst(neg)[1])}

\* _best_node(nodes): the first node with the greatest metric value
_best_node(G, nodesArg) ==
  LET ranks == degree(G, nodesArg)
  IN  IF ranks = <<>> THEN {Raise("ValueError")}
      ELSE {Pick(MaxFirst(ranks)[1])}

\* targeted_path ranking the whole network instead of the cached neighbours
neighbor_discriminator_all(t, G, nbrs) ==
  IF t = "random_path" THEN _random_node(G, Some(nbrs))
                       ELSE _best_node(G, None)

\* neighbor_discriminator of the two path policies
neighbor_discriminator(t, G, nbrs) ==
  IF t = "random_path" THEN _random_node(G, Some(nbrs))
                       ELSE _best_node(G, Some(nbrs))

\* a chooser that outlives the policy call keeps its cache
NewNeighbors_keep(old) == old

\* _path_chooser, line 77: a new closure starts with neighbors = None
NewNeighbors(old) == None

\* choose_target reading the neighbours only after the target is gone
choose_target_late(t, G, tgt, nbrs) ==
  LET picks == IF nbrs.some
                 THEN IF nbrs.val = <<>>
                        THEN _random_node(G, None)
                        ELSE neighbor_discriminator(t, G, nbrs.val)
                 ELSE {Pick(tgt)}
  IN  {IF p.err # "none"
         THEN [err |-> p.err, target |-> tgt, neighbors |-> nbrs]
         ELSE IF p.node \notin G.nodes
           THEN [err |-> "NetworkXError", target |-> p.node, neighbors |-> nbrs]
           ELSE [err |-> "none", target |-> p.node,
                 neighbors |->
                   Some(neighbors_of(remove_node(G, p.node), p.node))]
       : p \in picks}

\* choose_target of _path_chooser: outcomes [err, target, neighbors]
choose_target(t, G, tgt, nbrs) ==
  LET picks == IF nbrs.some
                 THEN IF nbrs.val = <<>>
                        THEN _random_node(G, None)
                        ELSE neighbor_discriminator(t, G, nbrs.val)
                 ELSE {Pick(tgt)}
  IN  {IF p.err # "none"
         THEN [err |-> p.err, target |-> tgt, neighbors |-> nbrs]
         ELSE IF p.node \notin G.nodes
           THEN [err |-> "NetworkXError", target |-> p.node, neighbors |-> nbrs]
           ELSE [err |-> "none", target |-> p.node,
                 neighbors |-> Some(neighbors_of(G, p.node))]
       : p \in picks}

\* targeted ranking the nodes once, when the policy call begins
Choices_stale(r) ==
  LET G == net(r) IN
  CASE atype[r] = "random" ->
         {[err |-> p.err, target |-> p.node, neighbors |-> neighbors[r]]
            : p \in _random_node(G, None)}
    [] atype[r] = "targeted" ->
         LET ranks == SelectSeq(degree(startNet[r], None),
                                LAMBDA it : it[1] \in G.nodes)
         IN  IF ranks = <<>>
               THEN {[err |-> "ValueError", target |-> 0,
                      neighbors |-> neighbors[r]]}
               ELSE {[err |-> "none", target |-> MaxFirst(ranks)[1],
                      neighbors |-> neighbors[r]]}
    [] OTHER -> choose_target(atype[r], G, target[r], neighbors[r])

\* what one iteration of _attack's loop chooses, for each policy
Choices(r) ==
  LET G == net(r) IN
  CASE atype[r] = "random" ->
         {[err |-> p.err, target |-> p.node, neighbors |-> neighbors[r]]
            : p \in _random_node(G, None)}
    [] atype[r] = "targeted" ->
         {[err |-> p.err, target |-> p.node, neighbors |-> neighbors[r]]
            : p \in _best_node(G, None)}
    [] OTHER -> choose_target(atype[r], G, target[r], neighbors[r])

\* "n = n or self._n": a count of 0 falls back to the default
attack_count_truthy(count, dflt) ==
  IF count.some /\ count.val # 0 THEN count.val ELSE dflt

\* _attack, lines 69-70: the caller's count, or self._n when it is None
attack_count(count, dflt) == IF count.some THEN count.val ELSE dflt

\* the loop stopping when the network runs out of nodes
loop_range_clamped(G, k) ==
  IF k < Cardinality(G.nodes) THEN k ELSE Cardinality(G.nodes)

\* _attack, line 72: "for _ in range(n)" runs n times whatever the network
\* holds
loop_range(G, k) == k

\* A policy is entered: random/targeted/random_path/targeted_path(count).
\* The path policies build their closure first (_path_chooser, lines 76-77),
\* then _attack fixes the number of iterations (lines 69-70).
PolicyEnter(r, t, count) ==
  LET G == net(r)
      seeds == IF t \in PathTypes THEN _random_node(G, None) ELSE {Pick(0)}
  IN  /\ atype' = [atype EXCEPT ![r] = t]
      /\ startNet' = [startNet EXCEPT ![r] = G]
      /\ requested' = [requested EXCEPT ![r] =
                         IF count.some THEN count.val ELSE n[r]]
      /\ defaults' = [defaults EXCEPT ![r] = @ /\ ~count.some]
      /\ prevCache' = [prevCache EXCEPT ![r] = neighbors[r]]
      /\ \E s \in seeds :
           IF s.err # "none"
             THEN /\ Fail(r, s.err)
                  /\ UNCHANGED <<left, target, neighbors>>
             ELSE /\ pc' = [pc EXCEPT ![r] = "attack"]
                  /\ left' = [left EXCEPT ![r] =
                                loop_range(G, attack_count(count, n[r]))]
                  /\ target' = [target EXCEPT ![r] = s.node]
                  /\ neighbors' = [neighbors EXCEPT ![r] = NewNeighbors(@)]
                  /\ UNCHANGED err
      /\ UNCHANGED <<graphs, netref, n, i, store, calls, last, meas, log>>
      /\ UNCHANGED drv_vars

\* simulate, line 64: getattr(attacker, attack_type)()
Invoke(r) ==
  /\ pc[r] = "call"
  /\ PolicyEnter(r, atype[r], None)

\* _attack, lines 72-73: one iteration, network.remove_node(choose_target())
AttackStep(r) ==
  /\ pc[r] = "attack"
  /\ left[r] > 0
  /\ \E c \in Choices(r) :
       /\ target' = [target EXCEPT ![r] = c.target]
       /\ IF c.err # "none"
            THEN /\ Fail(r, c.err)
                 /\ UNCHANGED <<graphs, left, neighbors, last>>
            ELSE /\ graphs' = [graphs EXCEPT ![netref[r]] =
                                 remove_node(@, c.target)]
                 /\ left' = [left EXCEPT ![r] = @ - 1]
                 /\ neighbors' = [neighbors EXCEPT ![r] = c.neighbors]
                 /\ last' = [last EXCEPT ![r] =
                               [valid |-> TRUE, node |-> c.target,
                                before |-> net(r), cache |-> neighbors[r],
                                first |-> left[r] = requested[r]]]
                 /\ UNCHANGED <<pc, err>>
  /\ UNCHANGED <<netref, n, atype, i, store, calls, startNet, requested,
                 defaults, prevCache, meas, log>>
  /\ UNCHANGED drv_vars

\* _attack's loop is over and the policy returns to its caller
PolicyReturn(r, nextpc) ==
  /\ pc[r] = "attack"
  /\ left[r] = 0
  /\ pc' = [pc EXCEPT ![r] = nextpc]
  /\ calls' = [calls EXCEPT ![r] = @ + 1]
  /\ UNCHANGED <<graphs, netref, n, atype, i, left, target, neighbors, store,
                 err, startNet, requested, defaults, prevCache, last, meas,
                 log>>
  /\ UNCHANGED drv_vars

Return(r) == PolicyReturn(r, "record")

\* the key computed from i instead of i + 1
step_key_i(k) == fmt(k * step)

\* simulate, line 65: the key of the measurement after step i
step_key(k) == fmt((k + 1) * step)

\* simulate, line 65: result_store[fmt((i + 1) * step)] = measure(...)
Record(r) ==
  /\ pc[r] = "record"
  /\ MeasureAndStore(r, step_key(i[r]),
                     IF i[r] + 1 < iters THEN "call" ELSE "done")
  /\ i' = [i EXCEPT ![r] = IF MeasureFails(net(r)) THEN @ ELSE @ + 1]
  /\ UNCHANGED <<graphs, netref, n, atype, left, target, neighbors, calls,
                 startNet, requested, defaults, prevCache, last>>
  /\ UNCHANGED drv_vars

Next ==
  \E r \in Runs :
    \/ SimStart(r)
    \/ Invoke(r)
    \/ AttackStep(r)
    \/ Return(r)
    \/ Record(r)

Spec == Init /\ [][Next]_vars

\* One simulate run of the targeted policy, which chooses without chance, on
\* the networks without self-loops of up to MaxNodes + 1 nodes.
TargetedInit ==
  /\ InitWith(Networks(MaxNodes + 1, FALSE),
              [r \in Runs |-> IF r = 1 THEN "start" ELSE "unused"])
  /\ atype = [r \in Runs |-> IF r = 1 THEN "targeted" ELSE "random"]
  /\ NoDriver

TargetedSpec == TargetedInit /\ [][Next]_vars

\* Two attackers built from the same source network, each driven by its own
\* simulate run, interleaved step by step.
IsoInit ==
  /\ InitWith(Networks(MaxNodes - 1, FALSE), [r \in Runs |-> "start"])
  /\ NoDriver

IsoSpec == IsoInit /\ [][Next]_vars

\* the path graph on the nodes 1..k: edges 1-2, 2-3, ..., (k-1)-k
PathGraph(k) == [nodes |-> 1..k, edges |-> {{j, j + 1} : j \in 1..(k - 1)}]

\* One simulate run on a path graph of up to MaxNodes + 2 nodes, with any
\* policy.
PathInit ==
  /\ InitWith({PathGraph(k) : k \in 1..(MaxNodes + 2)},
              [r \in Runs |-> IF r = 1 THEN "start" ELSE "unused"])
  /\ atype[2] = "random"
  /\ NoDriver

PathSpec == PathInit /\ [][Next]_vars

\* A client calls the policies of attacker 1 directly, with or without a
\* count of its own.
ApiInit ==
  /\ InitWith(Networks(MaxNodes, FALSE),
              [r \in Runs |-> IF r = 1 THEN "idle" ELSE "unused"])
  /\ atype = [r \in Runs |-> "random"]
  /\ NoDriver

\* the counts a client passes: none, zero, or the largest
Counts == {None, Some(0), Some(MaxN)}

ApiCall(r) ==
  /\ pc[r] = "idle"
  /\ calls[r] < MaxCalls
  /\ \E t \in attack_types : \E c \in Counts : PolicyEnter(r, t, c)

ApiReturn(r) == PolicyReturn(r, "idle")

ApiNext ==
  \E r \in Runs :
    \/ ApiCall(r)
    \/ AttackStep(r)
    \/ ApiReturn(r)

ApiSpec == ApiInit /\ [][ApiNext]_vars

\* ----------------------------------------------------------------- driver
\* The driver of simulator.py (__main__) with its four processes.  A snapshot
\* is kept as the number of its nodes, without self-loops, and a process as
\* the count of the nodes its attacker still holds: a policy call removes n
\* nodes, or raises when fewer than n are present, with nothing left; a
\* measurement is kept as the count it was taken of and raises on an empty
\* network.  The snapshots read_data yields carry distinct timestamps,
\* numbered 1, 2, ... here.

\* simulator.py:12-13, in the order of the list
attack_type_list == <<"random", "targeted", "random_path", "targeted_path">>

Procs == 1..Len(attack_type_list)

\* rounding up to the next integer
round_up(num) == (num + 999) \div 1000

\* Python 3's round() of num thousandths: to the nearest integer, ties to the
\* even one
round(num) ==
  LET q == num \div 1000
      rest == num % 1000
  IN  IF rest < 500 THEN q
      ELSE IF rest > 500 THEN q + 1
      ELSE IF q % 2 = 0 THEN q ELSE q + 1

\* simulator.py:109: n = int(round(len(network) * step))
driver_n(N) == round(N * step)

\* simulator.py:60 with end as it is in the source
full_iters == (end_full - start) \div step

\* one result dict for all attack types of a timestamp
SlotKey_shared(a, ts) == <<"all", ts>>

\* simulator.py:105, 113: robustness[attack_type][timestamp]
SlotKey(a, ts) == <<a, ts>>

\* simulator.py:104-105: a new managed dict for every attack type, in order
RECURSIVE AllocSlots(_, _, _, _)
AllocSlots(rob, ds, k, ts) ==
  IF k > Len(attack_type_list) THEN [rob |-> rob, ds |-> ds]
  ELSE LET key == SlotKey(attack_type_list[k], ts)
           ds2 == Append(ds, <<>>)
           rob2 == [x \in DOMAIN rob \cup {key} |->
                      IF x = key THEN Len(ds2) ELSE rob[x]]
       IN  AllocSlots(rob2, ds2, k + 1, ts)

SnapSizes == {0, 1, MaxCount}

DriverInit ==
  /\ InitWith({EmptyNet}, [r \in Runs |-> "unused"])
  /\ n = [r \in Runs |-> 0]
  /\ atype = [r \in Runs |-> "random"]
  /\ dpc = "read"
  /\ snap = 0
  /\ dk = 0
  /\ nodecount = 0
  /\ n_drv = 0
  /\ robustness = <<>>
  /\ dicts = <<>>
  /\ ps = <<>>
  /\ failedSnaps = {}
  /\ output = <<>>

\* simulator.py:93-114: the next snapshot is read, its slots are allocated, n
\* is derived and the four processes are built, each with its own attacker
Prepare(N) ==
  LET ts == snap + 1
      al == AllocSlots(robustness, dicts, 1, ts)
  IN  /\ snap' = ts
      /\ nodecount' = N
      /\ robustness' = al.rob
      /\ dicts' = al.ds
      /\ n_drv' = driver_n(N)
      /\ ps' = [p \in Procs |->
                  [pc |-> "ready", atype |-> attack_type_list[p],
                   n |-> driver_n(N), present |-> N, i |-> 0,
                   slot |-> al.rob[SlotKey(attack_type_list[p], ts)],
                   err |-> "none", log |-> <<>>]]
      /\ dpc' = "start"
      /\ dk' = 1
      /\ UNCHANGED <<failedSnaps, output>>
      /\ UNCHANGED sim_vars

DriverRead ==
  /\ dpc = "read"
  /\ snap < MaxSnaps
  /\ \E N \in SnapSizes : Prepare(N)

\* simulator.py:117-118: for p in ps: p.start()
StartProcess ==
  /\ dpc = "start"
  /\ ps' = [ps EXCEPT ![dk].pc = "start"]
  /\ IF dk < Len(ps) THEN dk' = dk + 1 /\ UNCHANGED dpc
                     ELSE dk' = 1 /\ dpc' = "join"
  /\ UNCHANGED <<snap, nodecount, n_drv, robustness, dicts,
                 failedSnaps, output>>
  /\ UNCHANGED sim_vars

\* join returning at once
Terminated_nowait(p) == TRUE

\* join returning only for a process that ran to its end
Terminated_done(p) == ps[p].pc = "done"

\* p.join() returns when the process is over, by a return of simulate or by
\* an exception that ended it
Terminated(p) == ps[p].pc \in {"done", "failed"}

\* simulator.py:120-121: for p in ps: p.join()
Join ==
  /\ dpc = "join"
  /\ Terminated(dk)
  /\ IF dk < Len(ps) THEN dk' = dk + 1 /\ UNCHANGED dpc
                     ELSE dk' = 0 /\ dpc' = "read"
  /\ UNCHANGED <<snap, nodecount, n_drv, robustness, dicts, ps,
                 failedSnaps, output>>
  /\ UNCHANGED sim_vars

\* simulator.py:124-134: read_data is exhausted; the results are copied to a
\* local dict and pickled
Dump ==
  /\ dpc = "read"
  /\ output' = [key \in DOMAIN robustness |-> dicts[robustness[key]]]
  /\ dpc' = "exit"
  /\ UNCHANGED <<snap, dk, nodecount, n_drv, robustness, dicts, ps,
                 failedSnaps>>
  /\ UNCHANGED sim_vars

\* the process ends with an exception
ProcFail(p, e) ==
  /\ ps' = [ps EXCEPT ![p].pc = "failed", ![p].err = e, ![p].present = 0]
  /\ failedSnaps' = failedSnaps \cup {snap}
  /\ UNCHANGED dicts

\* result_store[key] = measure(attacker.network) in process p
ProcMeasure(p, key, nextpc, nexti) ==
  IF ps[p].present = 0
    THEN ProcFail(p, "ValueError")
    ELSE /\ dicts' = [dicts EXCEPT ![ps[p].slot] =
                        [k \in DOMAIN @ \cup {key} |->
                           IF k = key THEN ps[p].present ELSE @[k]]]
         /\ ps' = [ps EXCEPT ![p].pc = nextpc, ![p].i = nexti,
                             ![p].log = Append(@, [key |-> key,
                                                   val |-> ps[p].present])]
         /\ UNCHANGED failedSnaps

\* simulate, lines 60-61, in process p
ProcStart(p, its) ==
  /\ p \in DOMAIN ps
  /\ ps[p].pc = "start"
  /\ ProcMeasure(p, fmt(0), IF its > 0 THEN "call" ELSE "done", 0)
  /\ UNCHANGED <<dpc, snap, dk, nodecount, n_drv, robustness, output>>
  /\ UNCHANGED sim_vars

\* simulate, line 64, in process p: the policy call as a whole
ProcCall(p) ==
  /\ p \in DOMAIN ps
  /\ ps[p].pc = "call"
  /\ IF ps[p].n > ps[p].present
       THEN ProcFail(p, "IndexError")
       ELSE /\ ps' = [ps EXCEPT ![p].pc = "record",
                                ![p].present = @ - ps[p].n]
            /\ UNCHANGED <<dicts, failedSnaps>>
  /\ UNCHANGED <<dpc, snap, dk, nodecount, n_drv, robustness, output>>
  /\ UNCHANGED sim_vars

\* simulate, line 65, in process p
ProcRecord(p, its) ==
  /\ p \in DOMAIN ps
  /\ ps[p].pc = "record"
  /\ ProcMeasure(p, step_key(ps[p].i),
                 IF ps[p].i + 1 < its THEN "call" ELSE "done", ps[p].i + 1)
  /\ UNCHANGED <<dpc, snap, dk, nodecount, n_drv, robustness, output>>
  /\ UNCHANGED sim_vars

DriverNext ==
  \/ DriverRead
  \/ StartProcess
  \/ Join
  \/ Dump
  \/ \E p \in Procs :
       \/ ProcStart(p, iters)
       \/ ProcCall(p)
       \/ ProcRecord(p, iters)

DriverSpec == DriverInit /\ [][DriverNext]_vars

\* The driver's derivation of n for a snapshot of any size up to MaxCount,
\* and one of its processes followed over the whole range of fractions of the
\* source.
SizeRead ==
  /\ dpc = "read"
  /\ snap = 0
  /\ \E N \in 0..MaxCount : Prepare(N)

SizeStart ==
  /\ dpc = "start"
  /\ dk = 1
  /\ ps' = [ps EXCEPT ![1].pc = "start"]
  /\ dk' = 2
  /\ UNCHANGED <<dpc, snap, nodecount, n_drv, robustness, dicts,
                 failedSnaps, output>>
  /\ UNCHANGED sim_vars

SizeNext ==
  \/ SizeRead
  \/ SizeStart
  \/ ProcStart(1, full_iters)
  \/ ProcCall(1)
  \/ ProcRecord(1, full_iters)

SizeSpec == DriverInit /\ [][SizeNext]_vars

\* ================================================================= claims
\* the removal recorded in last[r] is the first one of the current call
CurFirst(r) == last[r].valid /\ last[r].first /\ left[r] < requested[r]

\* the removal recorded in last[r] is a later one of the current call
CurLater(r) == last[r].valid /\ ~last[r].first /\ left[r] < requested[r]

\* C1: a policy call that returned has removed exactly the requested number
\* of nodes, all of them present when the call began (the attacker's n, or
\* the caller's count); after k returned calls that all used the default
\* count the working network has initial_node_count - k*n nodes.
C1_ExactRemoval ==
  \A r \in Runs :
    (pc[r] = "idle" /\ calls[r] > 0) =>
      /\ net(r).nodes \subseteq startNet[r].nodes
      /\ Cardinality(startNet[r].nodes \ net(r).nodes) = requested[r]
      /\ defaults[r] =>
           Cardinality(net(r).nodes) =
             Cardinality(graphs[Source].nodes) - calls[r] * n[r]

\* a default call followed by a call with its own count of 2
C1_Witness ==
  \E r \in Runs :
    /\ pc[r] = "idle" /\ calls[r] = 2 /\ ~defaults[r]
    /\ n[r] = 1 /\ requested[r] = 2
    /\ Cardinality(net(r).nodes) = Cardinality(graphs[Source].nodes) - 3

\* C2: every removal of the targeted policy takes a node whose degree in the
\* network as it is at that moment is at least the degree of every node
\* present at that moment.
C2_TargetedMax ==
  \A r \in Runs :
    (atype[r] = "targeted" /\ last[r].valid) =>
      /\ last[r].node \in last[r].before.nodes
      /\ net(r) = remove_node(last[r].before, last[r].node)
      /\ \A v \in last[r].before.nodes :
           deg(last[r].before, v) <= deg(last[r].before, last[r].node)

\* a second removal of one call where the scores of the call's beginning
\* rank highest a node that is no longer a best one
C2_Witness ==
  \E r \in Runs :
    /\ atype[r] = "targeted" /\ CurLater(r)
    /\ LET stale == SelectSeq(degree(startNet[r], None),
                              LAMBDA it : it[1] \in last[r].before.nodes)
       IN  deg(last[r].before, MaxFirst(stale)[1])
             < deg(last[r].before, last[r].node)

\* C3: within one call of a path policy the cache is the neighbour list the
\* target had immediately before it was removed, and every removal after the
\* first takes a member of the cache when the cache is not empty, any present
\* node otherwise.
C3_PathWithinCall ==
  \A r \in Runs :
    (atype[r] \in PathTypes /\ last[r].valid) =>
      /\ neighbors[r].some =>
           neighbors[r].val = neighbors_of(last[r].before, last[r].node)
      /\ CurLater(r) =>
           /\ last[r].cache.some
           /\ last[r].cache.val # <<>> =>
                last[r].node \in SeqToSet(last[r].cache.val)
           /\ last[r].node \in last[r].before.nodes

\* a later removal that took one of two cached neighbours
C3_Witness ==
  \E r \in Runs :
    /\ atype[r] \in PathTypes /\ CurLater(r)
    /\ Len(last[r].cache.val) >= 2
    /\ last[r].node \in SeqToSet(last[r].cache.val)
    /\ neighbors[r].val # <<>>

\* C4 as stated: the first removal of a later call of a path policy takes a
\* member of the cache the previous call left, when that cache is not empty.
C4_WalkContinues ==
  \A r \in Runs :
    (/\ atype[r] \in PathTypes /\ CurFirst(r) /\ calls[r] >= 1
     /\ prevCache[r].some /\ prevCache[r].val # <<>>) =>
      last[r].node \in SeqToSet(prevCache[r].val)

\* C4 amended: every call of a path policy starts a new walk; its first
\* removal consults no cache and takes the node drawn among the nodes present
\* when the call began, whatever cache the previous call left.
C4_FreshStartPerCall ==
  \A r \in Runs :
    (atype[r] \in PathTypes /\ CurFirst(r)) =>
      /\ ~last[r].cache.some
      /\ last[r].node \in startNet[r].nodes
      /\ last[r].before = startNet[r]

\* the previous call left a non-empty cache and the next call began outside it
C4_Witness ==
  \E r \in Runs :
    /\ atype[r] \in PathTypes /\ CurFirst(r) /\ calls[r] >= 1
    /\ prevCache[r].some /\ prevCache[r].val # <<>>
    /\ last[r].node \notin SeqToSet(prevCache[r].val)

\* C5: in targeted_path a removal that finds a non-empty cache takes a cached
\* node whose degree in the current network is greatest among the cached
\* nodes; the first target of a call consults no cache, and after an empty
\* cache every present node can be the next target.
C5_TargetedPath ==
  \A r \in Runs :
    atype[r] = "targeted_path" =>
      /\ (CurLater(r) /\ last[r].cache.val # <<>>) =>
           /\ last[r].node \in SeqToSet(last[r].cache.val)
           /\ \A m \in SeqToSet(last[r].cache.val) \cap last[r].before.nodes :
                deg(last[r].before, m) <= deg(last[r].before, last[r].node)
      /\ CurFirst(r) => ~last[r].cache.some
      /\ (pc[r] = "attack" /\ left[r] > 0 /\ neighbors[r] = Some(<<>>)) =>
           {c.target : c \in {d \in Choices(r) : d.err = "none"}} = net(r).nodes

\* the cache held two present nodes of different degree
C5_Witness ==
  \E r \in Runs :
    /\ atype[r] = "targeted_path" /\ CurLater(r)
    /\ \E m \in SeqToSet(last[r].cache.val) :
         deg(last[r].before, m) < deg(last[r].before, last[r].node)

\* C6: a step changes the working network of at most one attacker and never
\* the source network; an attacker that has removed nothing still has the
\* whole source network, whatever the other attacker removed.
C6_Isolation ==
  [][/\ graphs'[Source] = graphs[Source]
     /\ \A r \in Runs : \A q \in Runs \ {r} :
          net(r)' # net(r) => net(q)' = net(q)
     /\ \A r \in Runs : ~last[r]'.valid => net(r)' = graphs[Source]']_vars

\* both attackers removed a node the other one still has
C6_Witness ==
  /\ last[1].valid /\ last[2].valid
  /\ last[1].node \notin net(1).nodes /\ last[1].node \in net(2).nodes
  /\ last[2].node \notin net(2).nodes /\ last[2].node \in net(1).nodes
  /\ last[1].node \in graphs[Source].nodes
  /\ last[2].node \in graphs[Source].nodes

\* keys compare as the fractions they print
RECURSIVE KeyLess(_, _)
KeyLess(a, b) ==
  /\ a # <<>> /\ b # <<>>
  /\ \/ a[1] < b[1]
     \/ a[1] = b[1] /\ KeyLess(Tail(a), Tail(b))

\* C7: the writes of a run go to new keys in strictly increasing order,
\* starting with "0.000", and no entry is overwritten; a run that completed
\* has written exactly iters + 1 entries.
C7_StoreKeys ==
  \A r \in Runs :
    /\ Len(log[r]) >= 1 => log[r][1].key = <<0, 0, 0, 0>>
    /\ \A j \in 1..Len(log[r]) :
         /\ j > 1 => KeyLess(log[r][j - 1].key, log[r][j].key)
         /\ log[r][j].key \in DOMAIN store[r]
         /\ store[r][log[r][j].key] = log[r][j].val
    /\ Cardinality(DOMAIN store[r]) = Len(log[r])
    /\ pc[r] = "done" => Len(log[r]) = iters + 1

\* a completed run of two steps
C7_Witness ==
  \E r \in Runs :
    /\ pc[r] = "done" /\ n[r] >= 1
    /\ DOMAIN store[r] = {<<0, 0, 0, 0>>, <<0, 0, 0, 1>>, <<0, 0, 0, 2>>}

\* the node sets closed under adjacency
ClosedSets(G) ==
  {C \in SUBSET G.nodes : \A e \in G.edges : (e \cap C # {}) => e \subseteq C}

\* the components are the minimal non-empty closed sets
MinimalSets(cl) ==
  {C \in cl : C # {} /\ \A D \in cl : (D # {} /\ D \subseteq C) => D = C}

\* (number of components, size of the largest) of a family of components
MeasureOf(cs) ==
  <<Cardinality(cs),
    CHOOSE m \in {Cardinality(C) : C \in cs} :
      \A C \in cs : Cardinality(C) <= m>>

\* measurement of a network that has a node, from its closed sets
RefMeasure(G) ==
  CHOOSE res \in {MeasureOf(cs) : cs \in {MinimalSets(cl) : cl \in {ClosedSets(G)}}} :
    TRUE

\* C8: the j-th write of a run (j = 1 for "0.000") has the key (j-1)*step and
\* holds the measurement of the working network after exactly j-1 policy
\* calls, a network of initial_node_count - (j-1)*n nodes.
C8_EntryPerStep ==
  \A r \in Runs :
    \A j \in 1..Len(log[r]) :
      LET e == log[r][j] IN
        /\ e.key = fmt((j - 1) * step)
        /\ e.calls = j - 1
        /\ j = 1 => e.net = graphs[Source]
        /\ Cardinality(e.net.nodes) =
             Cardinality(graphs[Source].nodes) - (j - 1) * n[r]
        /\ e.val = measure(e.net)
        /\ store[r][e.key] = e.val

\* the second step's entry: two nodes gone, measured on what is left
C8_Witness ==
  \E r \in Runs :
    /\ Len(log[r]) = 3 /\ n[r] = 1
    /\ log[r][3].key = <<0, 0, 0, 2>>
    /\ Cardinality(log[r][3].net.nodes) = Cardinality(graphs[Source].nodes) - 2
    /\ log[r][3].val # log[r][1].val

IsIsolated(G) == G.edges = {}
IsComplete(G) == \A u \in G.nodes : \A v \in G.nodes \ {u} : {u, v} \in G.edges

\* C9: on a non-empty network measure returns (number of connected
\* components, size of the largest one) of the network it is given: (N, 1)
\* for N isolated nodes, (1, N) for a complete network, (1, 1) for one node.
C9_Measure ==
  \A r \in Runs :
    (meas[r].valid /\ meas[r].net.nodes # {}) =>
      LET G == meas[r].net
          N == Cardinality(G.nodes)
      IN  /\ meas[r].ok
          /\ meas[r].result = RefMeasure(G)
          /\ IsIsolated(G) => meas[r].result = <<N, 1>>
          /\ IsComplete(G) => meas[r].result = <<1, N>>
          /\ N = 1 => meas[r].result = <<1, 1>>

\* a measurement after a removal that split the network in two
C9_Witness ==
  \E r \in Runs :
    /\ meas[r].valid /\ meas[r].ok /\ calls[r] = 1
    /\ meas[r].net = net(r)
    /\ log[r][1].val = <<1, 3>>
    /\ meas[r].result = <<2, 1>>

\* C10: measure of a network without nodes returns (0, 0).
C10_EmptyMeasure ==
  \A r \in Runs :
    (meas[r].valid /\ meas[r].net.nodes = {}) =>
      (meas[r].ok /\ meas[r].result = <<0, 0>>)

\* the current policy call asked for more removals than there were nodes
OverRemoval(r) == requested[r] > Cardinality(startNet[r].nodes)

\* C11: a policy call that requests more removals than there are nodes
\* present never returns: while it runs more removals are still due than
\* nodes are left, it ends in an exception that nothing catches, and the
\* attacker takes no step after the exception.
C11_OverRemovalRaises ==
  [][\A r \in Runs :
       /\ (pc[r]' # "unused" /\ OverRemoval(r)') =>
            /\ pc[r]' \in {"attack", "failed"}
            /\ pc[r]' = "attack" =>
                 left[r]' > Cardinality(net(r)'.nodes)
            /\ pc[r]' = "failed" =>
                 err[r]' \in {"IndexError", "ValueError", "NetworkXError"}
       /\ pc[r] = "failed" =>
            /\ pc[r]' = "failed" /\ err[r]' = err[r]
            /\ net(r)' = net(r) /\ calls[r]' = calls[r]]_vars

\* a second call, of targeted_path, asked for two nodes of one and failed
C11_Witness ==
  \E r \in Runs :
    /\ pc[r] = "failed" /\ OverRemoval(r)
    /\ Cardinality(startNet[r].nodes) = 1 /\ requested[r] = 2
    /\ atype[r] = "targeted_path" /\ calls[r] = 1

\* the run failed after the measurement of the untouched network succeeded
FailedInStep(r) == pc[r] = "failed" /\ log[r] # <<>>

\* C12: when a policy call or a measurement fails during step j = i + 1 of
\* simulate, the store holds exactly the entries of "0.000" and of the steps
\* 1..j-1, each with the measurement written then, and the run takes no
\* step afterwards: no retry, no further policy call, no further write.
C12_FailStopsRun ==
  [][\A r \in Runs :
       /\ FailedInStep(r)' =>
            /\ DOMAIN store[r]' = {fmt(k * step) : k \in 0..i[r]'}
            /\ Len(log[r]') = i[r]' + 1
            /\ \A k \in 0..i[r]' :
                 /\ log[r]'[k + 1].key = fmt(k * step)
                 /\ store[r]'[fmt(k * step)] = log[r]'[k + 1].val
            /\ calls[r]' \in {i[r]', i[r]' + 1}
            /\ i[r]' < iters
       /\ pc[r] = "failed" =>
            /\ pc[r]' = "failed" /\ store[r]' = store[r]
            /\ calls[r]' = calls[r] /\ net(r)' = net(r)
            /\ i[r]' = i[r] /\ left[r]' = left[r]]_vars

\* the policy call of step 2 failed: the entries of "0.000" and step 1 stay
C12_Witness ==
  \E r \in Runs :
    /\ FailedInStep(r) /\ i[r] = 1 /\ calls[r] = 1
    /\ err[r] = "IndexError"
    /\ DOMAIN store[r] = {<<0, 0, 0, 0>>, <<0, 0, 0, 1>>}
    /\ store[r][<<0, 0, 0, 0>>] # store[r][<<0, 0, 0, 1>>]

\* the measurement of step 1 failed on the emptied network
C12_WitnessMeasure ==
  \E r \in Runs :
    /\ FailedInStep(r) /\ i[r] = 0 /\ calls[r] = 1
    /\ meas[r].valid /\ ~meas[r].ok
    /\ DOMAIN store[r] = {<<0, 0, 0, 0>>}

\* C17: in random_path and targeted_path, while the network still holds as
\* many nodes as removals are due, every choice made from a non-empty cache
\* succeeds and yields a node that is still present, self-loops or not.
C17_CachedTargetPresent ==
  \A r \in Runs :
    (/\ atype[r] \in PathTypes /\ pc[r] = "attack" /\ left[r] > 0
     /\ left[r] <= Cardinality(net(r).nodes)
     /\ neighbors[r].some /\ neighbors[r].val # <<>>) =>
      \A c \in Choices(r) : c.err = "none" /\ c.target \in net(r).nodes

\* C20: on a network without self-loops a policy call that asked for more
\* removals than the m nodes present fails only after it has removed all m
\* of them: the working network is empty when the exception leaves the call,
\* and nothing restores it.
C20_FailsOnEmptied ==
  \A r \in Runs :
    (/\ pc[r] = "failed" /\ OverRemoval(r)
     /\ \A e \in graphs[Source].edges : Cardinality(e) = 2) =>
      /\ net(r) = EmptyNet
      /\ startNet[r].nodes # {} =>
           requested[r] - left[r] = Cardinality(startNet[r].nodes)

\* random_path asked for two nodes of the one present and removed that one
C20_Witness ==
  \E r \in Runs :
    /\ pc[r] = "failed" /\ atype[r] = "random_path"
    /\ Cardinality(startNet[r].nodes) = 1 /\ requested[r] = 2
    /\ last[r].valid /\ last[r].before = startNet[r]
    /\ net(r) = EmptyNet

\* what process p wrote, as a mapping
Written(p) ==
  [key \in {ps[p].log[j].key : j \in 1..Len(ps[p].log)} |->
     LET j == CHOOSE j \in 1..Len(ps[p].log) :
                /\ ps[p].log[j].key = key
                /\ \A m \in (j + 1)..Len(ps[p].log) : ps[p].log[m].key # key
     IN  ps[p].log[j].val]

\* C13: the processes of a snapshot write to pairwise different result
\* dicts, the one allocated for their attack type and the snapshot's
\* timestamp before they were built; a dict holds what its own process wrote
\* and nothing else, and when the process is done, what a run of its own
\* yields: the iters + 1 keys with the measurements of N - k*n nodes.
C13_DisjointSlots ==
  \A p \in DOMAIN ps :
    /\ \A q \in DOMAIN ps \ {p} : ps[p].slot # ps[q].slot
    /\ SlotKey(ps[p].atype, snap) \in DOMAIN robustness
    /\ ps[p].slot = robustness[SlotKey(ps[p].atype, snap)]
    /\ dicts[ps[p].slot] = Written(p)
    /\ ps[p].pc = "done" =>
         dicts[ps[p].slot] =
           [key \in {fmt(k * step) : k \in 0..iters} |->
              LET k == CHOOSE k \in 0..iters : fmt(k * step) = key
              IN  nodecount - k * n_drv]

\* the four processes of the second snapshot are done, each with a full dict
\* of its own
C13_Witness ==
  /\ snap = 2 /\ n_drv >= 1
  /\ \A p \in DOMAIN ps : ps[p].pc = "done"
  /\ Cardinality({ps[p].slot : p \in DOMAIN ps}) = 4
  /\ \A p \in DOMAIN ps : Cardinality(DOMAIN dicts[ps[p].slot]) = iters + 1

\* two processes in the middle of their runs, one a step ahead
C13_WitnessParallel ==
  /\ DOMAIN ps # {}
  /\ ps[1].pc = "record" /\ ps[1].i = 0
  /\ ps[2].pc = "call" /\ ps[2].i = 1
  /\ dicts[ps[1].slot] # dicts[ps[2].slot]

\* C14: the driver takes the snapshots one after the other: the slots of the
\* next snapshot are allocated and its processes built only when every
\* process of the current one is over and the join loop has ended, and a
\* process is started only by the start loop of its own snapshot.
C14_Sequential ==
  [][/\ (snap' # snap \/ robustness' # robustness) =>
          /\ snap' = snap + 1
          /\ dpc = "read"
          /\ \A p \in DOMAIN ps : ps[p].pc \in {"done", "failed"}
          /\ \A p \in DOMAIN ps' : ps'[p].pc = "ready"
     /\ \A p \in DOMAIN ps :
          (ps[p].pc = "ready" /\ ps'[p].pc # "ready") =>
            /\ dpc = "start" /\ dk = p /\ snap' = snap
            /\ ps'[p].pc = "start"
            /\ ps'[p].slot = robustness[SlotKey(ps[p].atype, snap)]]_vars

\* the second snapshot is under way after the whole first one was run
C14_Witness ==
  /\ snap = 2 /\ dpc = "join"
  /\ ps[1].pc = "done" /\ ps[4].pc = "start"
  /\ Cardinality(DOMAIN robustness) = 8
  /\ \A a \in attack_types :
       Cardinality(DOMAIN dicts[robustness[SlotKey(a, 1)]]) = iters + 1

\* C15 as stated: once a run of a snapshot has failed the driver stays in
\* that snapshot: it reads no further snapshot and writes no output.
C15_ErrorBlocks ==
  \A s \in failedSnaps : snap = s /\ dpc # "exit"

\* C15 amended: a run that fails ends its process, and join returns for it
\* as for a run that completed, so the driver is never held up by a failed
\* run; it goes on only when every process is over, and the output holds
\* for a failed run the entries written before the failure, fewer than
\* iters + 1.
C15_ErrorEndsProcess ==
  /\ (dpc = "join" /\ ps[dk].pc \in {"done", "failed"}) => ENABLED Join
  /\ dpc \in {"read", "exit"} =>
       \A p \in DOMAIN ps : ps[p].pc \in {"done", "failed"}
  /\ \A p \in DOMAIN ps :
       ps[p].pc = "failed" =>
         /\ snap \in failedSnaps
         /\ dicts[ps[p].slot] = Written(p)
         /\ Len(ps[p].log) < iters + 1
  /\ dpc = "exit" =>
       /\ DOMAIN output = DOMAIN robustness
       /\ \A key \in DOMAIN output : output[key] = dicts[robustness[key]]

\* the output was written after the runs of the first snapshot had failed
\* and those of the second had completed
C15_Witness ==
  /\ dpc = "exit" /\ failedSnaps = {1} /\ snap = 2
  /\ \A a \in attack_types :
       /\ output[SlotKey(a, 1)] = <<>>
       /\ Cardinality(DOMAIN output[SlotKey(a, 2)]) = iters + 1

\* C18: the driver's n = round(N * step) and the iters = (end - start) / step
\* steps of a run never ask for more than the N nodes of the snapshot:
\* n * iters <= N, every policy call finds at least n nodes present, and no
\* run ends in the exception of an over-removal.
C18_NoOverRemoval ==
  dpc # "read" =>
    /\ n_drv = driver_n(nodecount)
    /\ n_drv * full_iters <= nodecount
    /\ \A p \in DOMAIN ps :
         /\ ps[p].n = n_drv
         /\ ps[p].err # "IndexError"
         /\ ps[p].pc = "call" => ps[p].n <= ps[p].present
         /\ ps[p].pc = "failed" => nodecount = 0
         /\ ps[p].pc = "done" =>
              ps[p].present = nodecount - n_drv * full_iters

\* a run over a snapshot of 1500 nodes, two per step, ended with 1300 left
C18_Witness ==
  /\ dpc # "read" /\ nodecount = 1500 /\ n_drv = 2
  /\ ps[1].pc = "done" /\ ps[1].i = full_iters /\ ps[1].present = 1300

\* C19: for every snapshot that has a node the driver's n is at least 1.
C19_NAtLeastOne ==
  (dpc # "read" /\ nodecount >= 1) => n_drv >= 1

====
